---- MODULE Spec2Model ----
(***************************************************************************)
(* BlendNet REST client engine (BlendNet/Client.py, class ClientEngine):   *)
(* the trust store (_initSSL, _getCA), the request builder (_request),     *)
(* the retry executor (_requestExecute), the two run functions             *)
(* (_requestExecuteRun, _requestDownloadRun) and the four operations       *)
(* get, delete, put and download.                                          *)
(*                                                                         *)
(* Each thread that calls the engine walks through the statements of one   *)
(* operation; th[t] holds its position (pc) and its locals.  The fields of *)
(* the engine (_ca, _context, _address), the bucket that holds ca.crt and  *)
(* the destination file are shared.                                        *)
(***************************************************************************)
EXTENDS Integers, Sequences, FiniteSets, TLC

VARIABLES
    ca,            \* self._ca: "None" or the bundle fetched from the bucket
    context,       \* self._context: the set of CA bundles loaded into it
    address,       \* self._address is set (truthy)
    bucket,        \* what the bucket holds under ca.crt
    file,          \* the download destination on disk
    th,            \* per thread: position and locals of the running call
    everInstalled, \* observation: load_verify_locations succeeded at least once
    fetchLog       \* observation: the _getCA calls since the last _initSSL

vars == <<ca, context, address, bucket, file, th, everInstalled, fetchLog>>

----------------------------------------------------------------------------
(* Bounds of the model *)

\* longest response body, in bytes
MaxBody == 2
\* the chunk cap of res.read(min(1048576, size_left)), scaled to the model's bodies
ChunkMax == 1

(* Program constants *)

\* range(3) of the retry loop
Retries == 3

Threads == {"t1", "t2"}
\* the callers of the serialized specification
Callers == {"t1"}

\* byte values, abstracted to two
Bytes == {0, 1}
Bodies == UNION {[1..n -> Bytes] : n \in 0..MaxBody}

\* contents of the bucket: no object, the CA that signed the Manager's
\* certificate, an old or wrong CA, bytes that are no PEM certificate
Buckets == {"absent", "good", "stale", "garbage"}

Ops == {"get", "delete", "put", "download"}

Min(a, b) == IF a < b THEN a ELSE b

Take(s, n) == SubSeq(s, 1, Min(n, Len(s)))
Drop(s, n) == SubSeq(s, Min(n, Len(s)) + 1, Len(s))

\* hashlib.sha1: a digest that identifies the bytes hashed (collision free);
\* the bytes as digits 1, 2 in base 3, so that no two sequences agree
RECURSIVE Sha1(_)
Sha1(s) == IF s = <<>> THEN 0
           ELSE Sha1(SubSeq(s, 1, Len(s) - 1)) * (Cardinality(Bytes) + 1) + s[Len(s)] + 1

\* a header that is not sent
NoHeader == -1

----------------------------------------------------------------------------
(* Locals of a call *)

NoResp == [success |-> "none", data |-> "none",
           length |-> NoHeader, sha1 |-> NoHeader, body |-> <<>>]

\* nothing at the destination path
NoFile == [exists |-> FALSE, old |-> FALSE, data |-> <<>>]

\* pc .. digest: position and locals; stream, size: the arguments of put();
\* the rest observes the call: hist (one event per attempt), sleeps, resets,
\* wrote (how far the download target got), recv (the response as received),
\* sent (what each attempt transmitted of the body), file0 (the destination
\* when the call began), prevReset (the call before this one reset the trust
\* store), raced (another thread reset the trust store under this call),
\* overlapped (this thread once began a call while another call was running)
Idle == [pc |-> "idle", op |-> "none", out |-> "none", req |-> FALSE,
         repeat |-> 0, exc |-> "none", reason |-> "none", resp |-> NoResp,
         size_left |-> 0, sha1_calc |-> <<>>,
         result |-> "pending", digest |-> NoHeader,
         hist |-> <<>>, sleeps |-> 0, resets |-> 0, wrote |-> "no",
         stream |-> <<>>, size |-> 0, sent |-> <<>>,
         recv |-> NoResp, file0 |-> NoFile, prevReset |-> FALSE, raced |-> FALSE,
         overlapped |-> FALSE]

HasData_Mutant(op) == TRUE
\* req.data: the body stream handed to put(); get, delete and download send none
HasData(op) == op = "put"

\* the call ends: the operation returns value v to its caller
Finish(r, v) == [r EXCEPT !.pc = "done", !.result = v]

\* the call ends with an exception propagating to the caller
Raise(r) == [r EXCEPT !.pc = "done", !.result = "raised"]

----------------------------------------------------------------------------
(* Trust store *)

\* the cached bundle survives the new context
InitSSL_KeepsCA ==
    /\ context' = {}
    /\ UNCHANGED ca
    /\ fetchLog' = <<>>

\* _initSSL: a new context with nothing loaded, and no cached bundle
InitSSL ==
    /\ context' = {}
    /\ ca' = "None"
    /\ fetchLog' = <<>>

\* providers.downloadDataFromBucket(bucket, 'ca.crt')
DownloadDataFromBucket == IF bucket = "absent" THEN "None" ELSE bucket

\* the last two _getCA calls since the last _initSSL
Logged(e) == IF Len(fetchLog) < 2 THEN Append(fetchLog, e)
             ELSE <<fetchLog[2], e>>

\* _request, after _getCA returned True: None without an address
RequestBuilt(r) == [r EXCEPT !.pc = "built", !.req = address]

\* an operation among ops starts: _request calls _getCA; put() is handed a
\* stream of size bytes, download() a callback or a path
Start(t, ops) ==
    /\ th[t].pc = "idle"
    /\ \E op \in ops :
         \E out \in IF op = "download" THEN {"func", "path"} ELSE {"none"} :
           \E data \in IF op = "put" THEN Bodies ELSE {<<>>} :
             th' = [th EXCEPT ![t] = [Idle EXCEPT !.pc = "getCA", !.op = op, !.out = out,
                      !.stream = data, !.size = Len(data),
                      !.file0 = file, !.prevReset = th[t].prevReset,
                      !.overlapped = th[t].overlapped
                                     \/ \E u \in Threads \ {t} : th[u].pc # "idle"]]
    /\ UNCHANGED <<ca, context, address, bucket, file, everInstalled, fetchLog>>

Call(t) == Start(t, Ops)

Cached_Mutant == FALSE
\* if self._ca
Cached == ca # "None"

\* _getCA up to the fetch: the cached bundle answers, else the bucket is read
GetCA(t) ==
    /\ th[t].pc = "getCA"
    /\ IF Cached
       THEN /\ th' = [th EXCEPT ![t] = RequestBuilt(@)]
            /\ fetchLog' = Logged([fetched |-> FALSE, got |-> FALSE])
            /\ UNCHANGED ca
       ELSE /\ ca' = DownloadDataFromBucket
            /\ fetchLog' = Logged([fetched |-> TRUE, got |-> ca' # "None"])
            /\ IF ca' = "None"
               THEN th' = [th EXCEPT ![t] = [@ EXCEPT !.pc = "built", !.req = FALSE]]
               ELSE th' = [th EXCEPT ![t] = [@ EXCEPT !.pc = "loadCA"]]
    /\ UNCHANGED <<context, address, bucket, file, everInstalled>>

\* _getCA, load_verify_locations(cadata=self._ca.decode()): bytes that are no
\* certificate raise, and so does a bundle another thread has cleared
LoadCA(t) ==
    /\ th[t].pc = "loadCA"
    /\ IF ca \in {"good", "stale"}
       THEN /\ context' = context \cup {ca}
            /\ everInstalled' = TRUE
            /\ th' = [th EXCEPT ![t] = RequestBuilt(@)]
       ELSE /\ th' = [th EXCEPT ![t] = Raise(@)]
            /\ UNCHANGED <<context, everInstalled>>
    /\ UNCHANGED <<ca, address, bucket, file, fetchLog>>

----------------------------------------------------------------------------
(* Operations: get, delete, put, download after _request returned *)

\* get, delete and download return None without a request; put has no such
\* check and req.add_header fails on None
Built(t) ==
    /\ th[t].pc = "built"
    /\ th' = [th EXCEPT ![t] =
                IF @.req THEN [@ EXCEPT !.pc = "attempt", !.repeat = 0]
                ELSE IF @.op = "put" THEN Raise(@)
                ELSE Finish(@, "None")]
    /\ UNCHANGED <<ca, context, address, bucket, file, everInstalled, fetchLog>>

----------------------------------------------------------------------------
(* One attempt: urlopen(req, context=self._context) *)

\* the handshake verifies the Manager's certificate against the loaded CAs
Verified == "good" \in context

Lengths == 0..(MaxBody + 1)
Digests == {Sha1(b) : b \in Bodies}

\* JSON envelopes {success, data, message}
Envelopes == {[NoResp EXCEPT !.success = s, !.data = d] :
                s \in {"true", "false", "missing"}, d \in {"value", "null", "missing"}}

\* download responses: headers (sent or not) and the body that follows
Downloads == {[NoResp EXCEPT !.length = l, !.sha1 = h, !.body = b] :
                l \in Lengths \cup {NoHeader}, h \in Digests \cup {NoHeader}, b \in Bodies}

Responses(op) == IF op = "download" THEN Downloads ELSE Envelopes

\* what urlopen raises: HTTPError needs a completed handshake, a certificate
\* failure a context that cannot verify the Manager
Failures ==
    {[exc |-> "url", reason |-> "net"], [exc |-> "url", reason |-> "pipe"],
     [exc |-> "other", reason |-> "none"]}
    \cup (IF Verified THEN {[exc |-> "http", reason |-> "none"]}
          ELSE {[exc |-> "url", reason |-> "cert"]})

Event(ev) == [ev |-> ev, loaded |-> context # {}, ever |-> everInstalled]

\* http.client sends req.data by reading the stream from where it stands to
\* its end; the Manager answers (a response or an HTTP error status) once the
\* request went out whole
Transmit(r, answered) ==
    IF r.op = "put" /\ answered
    THEN [r EXCEPT !.sent = Append(@, r.stream), !.stream = <<>>]
    ELSE r

\* one urlopen of the retry loop, the network choosing among the failures
\* and the responses given
Attempt(t, failures, responses) ==
    /\ th[t].pc = "attempt"
    /\ \/ \E f \in failures :
            th' = [th EXCEPT ![t] = Transmit([@ EXCEPT !.pc = "caught", !.exc = f.exc,
                     !.reason = f.reason,
                     !.hist = Append(@, Event(IF f.exc = "url" THEN f.reason ELSE f.exc))],
                     f.exc = "http")]
       \/ /\ Verified
          /\ \E r \in responses :
               th' = [th EXCEPT ![t] = Transmit([@ EXCEPT !.pc = "response", !.resp = r,
                        !.recv = r, !.exc = "none", !.reason = "none",
                        !.hist = Append(@, Event("response"))], TRUE)]
    /\ UNCHANGED <<ca, context, address, bucket, file, everInstalled, fetchLog>>

Urlopen(t) == Attempt(t, Failures, Responses(th[t].op))

\* an exception leaves the run function for the handlers of _requestExecute
Caught(r, exc, reason) == [r EXCEPT !.pc = "caught", !.exc = exc, !.reason = reason]

----------------------------------------------------------------------------
(* _requestExecuteRun *)

Success_Mutant(resp) == resp.success # "false"
\* data.get('success', False)
Success(resp) == resp.success = "true"

\* data.get('data', True)
EnvelopeData(resp) ==
    CASE resp.data = "value" -> "data"
      [] resp.data = "null" -> "None"
      [] OTHER -> "True"

\* a false or missing success reaches the print of line 147, whose format has
\* two %s for one argument: TypeError, caught by the bare except
RequestExecuteRun(t) ==
    /\ th[t].pc = "response"
    /\ th[t].op # "download"
    /\ th' = [th EXCEPT ![t] =
                IF Success(@.resp) THEN Finish(@, EnvelopeData(@.resp))
                ELSE Caught(@, "other", "none")]
    /\ UNCHANGED <<ca, context, address, bucket, file, everInstalled, fetchLog>>

----------------------------------------------------------------------------
(* _requestDownloadRun *)

\* os.remove(req._out_path)
Removed == NoFile

\* only Content-Length is looked at
HeadersMissing_LengthOnly(resp) == resp.length = NoHeader

\* not length or not sha1
HeadersMissing(resp) == resp.length = NoHeader \/ resp.sha1 = NoHeader

\* up to the dispatch on the target: without both headers False is returned;
\* a callback gets the live stream and its result is the result
RequestDownloadRun(t) ==
    /\ th[t].pc = "response"
    /\ th[t].op = "download"
    /\ \/ /\ HeadersMissing(th[t].resp)
          /\ th' = [th EXCEPT ![t] = Finish(@, "False")]
          /\ UNCHANGED file
       \/ /\ ~HeadersMissing(th[t].resp)
          /\ th[t].out = "func"
          /\ \/ th' = [th EXCEPT ![t] = [Finish(@, "callback") EXCEPT !.wrote = "sink"]]
             \/ th' = [th EXCEPT ![t] = [Caught(@, "other", "none") EXCEPT !.wrote = "sink"]]
          /\ UNCHANGED file
       \/ /\ ~HeadersMissing(th[t].resp)
          /\ th[t].out = "path"
          /\ file' = [exists |-> TRUE, old |-> FALSE, data |-> <<>>]
          /\ th' = [th EXCEPT ![t] = [@ EXCEPT !.pc = "chunk", !.wrote = "open",
                      !.size_left = th[t].resp.length, !.sha1_calc = <<>>]]
    /\ UNCHANGED <<ca, context, address, bucket, everInstalled, fetchLog>>

\* open(req._out_path, 'wb') fails: the handler removes what is at the path
\* (os.remove raises in its turn when nothing is there) and the error goes on
DownloadOpenFail(t) ==
    /\ th[t].pc = "response"
    /\ th[t].op = "download"
    /\ ~HeadersMissing(th[t].resp)
    /\ th[t].out = "path"
    /\ file' = Removed
    /\ th' = [th EXCEPT ![t] = [Caught(@, "other", "none") EXCEPT !.wrote = "open_fail"]]
    /\ UNCHANGED <<ca, context, address, bucket, everInstalled, fetchLog>>

\* the cap is taken one short of what is left
ReadChunk_Short(r) == Take(r.resp.body, Min(ChunkMax, r.size_left - 1))

\* the cap ignores what is left of the declared size
ReadChunk_Uncapped(r) == Take(r.resp.body, ChunkMax)

\* res.read(min(1048576, size_left))
ReadChunk(r) == Take(r.resp.body, Min(ChunkMax, r.size_left))

Mismatch_Mutant(r) == FALSE
\* sha1 != sha1_calc.hexdigest()
Mismatch(r) == r.resp.sha1 # Sha1(r.sha1_calc)

\* one turn of the chunk loop; an empty read ends it and the digest decides
DownloadChunk(t) ==
    /\ th[t].pc = "chunk"
    /\ LET r == th[t]
           chunk == ReadChunk(r)
       IN  IF chunk # <<>>
           THEN /\ file' = [file EXCEPT !.exists = TRUE, !.data = @ \o chunk]
                /\ th' = [th EXCEPT ![t] = [@ EXCEPT
                            !.sha1_calc = @ \o chunk,
                            !.size_left = @ - Len(chunk),
                            !.resp = [@ EXCEPT !.body = Drop(@, Len(chunk))]]]
           ELSE IF Mismatch(r)
           THEN /\ file' = Removed
                /\ th' = [th EXCEPT ![t] = [Caught(@, "url", "sha1") EXCEPT !.wrote = "mismatch"]]
           ELSE /\ UNCHANGED file
                /\ th' = [th EXCEPT ![t] = [Finish(@, "digest") EXCEPT
                            !.wrote = "verified", !.digest = Sha1(r.sha1_calc)]]
    /\ UNCHANGED <<ca, context, address, bucket, everInstalled, fetchLog>>

\* res.read or f.write raises in the loop: the file is removed, the error goes on
DownloadFail(t) ==
    /\ th[t].pc = "chunk"
    /\ file' = Removed
    /\ th' = [th EXCEPT ![t] = [Caught(@, "other", "none") EXCEPT !.wrote = "failed"]]
    /\ UNCHANGED <<ca, context, address, bucket, everInstalled, fetchLog>>

----------------------------------------------------------------------------
(* _requestExecute: the except clauses and the retry *)

\* HTTPError falls to the clause of its base class URLError
ErrorAction_NoRetry(exc, reason, data) ==
    CASE exc = "url" /\ reason = "cert" -> "reinit"
      [] exc = "url" /\ reason = "pipe" /\ data -> "true"
      [] OTHER -> "none"

\* the clauses that return fall to the sleep instead
ErrorAction_RetryAll(exc, reason, data) ==
    CASE exc = "url" /\ reason = "cert" -> "reinit"
      [] exc = "url" /\ reason = "pipe" /\ data -> "true"
      [] OTHER -> "retry"

\* every URLError but a broken pipe is taken for a certificate failure
ErrorAction_ResetAny(exc, reason, data) ==
    CASE exc = "http" -> "retry"
      [] exc = "url" /\ reason = "pipe" /\ data -> "true"
      [] exc = "url" /\ reason # "pipe" -> "reinit"
      [] OTHER -> "none"

\* which clause takes the exception, and what it does
ErrorAction(exc, reason, data) ==
    CASE exc = "http" -> "retry"
      [] exc = "url" /\ reason = "cert" -> "reinit"
      [] exc = "url" /\ reason = "pipe" /\ data -> "true"
      [] OTHER -> "none"

Handling(t) == ErrorAction(th[t].exc, th[t].reason, HasData(th[t].op))

\* except HTTPError: warn, then fall to the sleep
HandleHTTPError(t) ==
    /\ th[t].pc = "caught"
    /\ Handling(t) = "retry"
    /\ th' = [th EXCEPT ![t] = [@ EXCEPT !.pc = "sleep"]]
    /\ UNCHANGED <<ca, context, address, bucket, file, everInstalled, fetchLog>>

\* except URLError with CERTIFICATE_VERIFY_FAILED: _initSSL, then the sleep
HandleCertificate(t) ==
    /\ th[t].pc = "caught"
    /\ Handling(t) = "reinit"
    /\ InitSSL
    /\ th' = [u \in Threads |->
                IF u = t THEN [th[u] EXCEPT !.pc = "sleep", !.resets = @ + 1]
                ELSE IF th[u].pc \in {"idle", "done"} THEN th[u]
                ELSE [th[u] EXCEPT !.raced = TRUE]]
    /\ UNCHANGED <<address, bucket, file, everInstalled>>

\* except URLError, BrokenPipeError while a body was sent: return True
HandleBrokenPipe(t) ==
    /\ th[t].pc = "caught"
    /\ Handling(t) = "true"
    /\ th' = [th EXCEPT ![t] = Finish(@, "True")]
    /\ UNCHANGED <<ca, context, address, bucket, file, everInstalled, fetchLog>>

\* any other URLError, and the bare except: return None
HandleAbort(t) ==
    /\ th[t].pc = "caught"
    /\ Handling(t) = "none"
    /\ th' = [th EXCEPT ![t] = Finish(@, "None")]
    /\ UNCHANGED <<ca, context, address, bucket, file, everInstalled, fetchLog>>

LoopNext_OffByOne(r) ==
    IF r.repeat + 1 <= 3
    THEN [r EXCEPT !.pc = "attempt", !.repeat = @ + 1]
    ELSE [r EXCEPT !.pc = "done", !.result = "None", !.repeat = @ + 1]

\* the loop goes on while repeat is in range(3); falling out returns None
LoopNext(r) ==
    IF r.repeat + 1 < Retries
    THEN [r EXCEPT !.pc = "attempt", !.repeat = @ + 1]
    ELSE Finish([r EXCEPT !.repeat = @ + 1], "None")

\* time.sleep(1.0) at the end of the loop body, then the next turn
Sleep(t) ==
    /\ th[t].pc = "sleep"
    /\ th' = [th EXCEPT ![t] = LoopNext([@ EXCEPT !.sleeps = @ + 1])]
    /\ UNCHANGED <<ca, context, address, bucket, file, everInstalled, fetchLog>>

\* the caller has the result; what is on disk now predates any later call
Return(t) ==
    /\ th[t].pc = "done"
    /\ th' = [th EXCEPT ![t] = [Idle EXCEPT !.prevReset = th[t].resets > 0,
                                           !.overlapped = th[t].overlapped]]
    /\ file' = IF file.exists THEN [exists |-> TRUE, old |-> TRUE, data |-> <<>>] ELSE NoFile
    /\ UNCHANGED <<ca, context, address, bucket, everInstalled, fetchLog>>

----------------------------------------------------------------------------
(* Environment *)

AllIdle == \A t \in Threads : th[t].pc = "idle"

\* the Manager (re)writes ca.crt; the engine reads the bucket only in _getCA,
\* at the start of a call, so changes are taken between calls
BucketChange ==
    /\ AllIdle
    /\ \E b \in Buckets \ {bucket} : bucket' = b
    /\ UNCHANGED <<ca, context, address, file, th, everInstalled, fetchLog>>

----------------------------------------------------------------------------
(* Specification: calls on the engine are serialized *)

\* ClientEngine.__init__: the fields, and _initSSL
Init ==
    /\ ca = "None"
    /\ context = {}
    /\ address \in BOOLEAN
    /\ bucket \in Buckets
    /\ file \in {NoFile, [exists |-> TRUE, old |-> TRUE, data |-> <<>>]}
    /\ th = [t \in Threads |-> Idle]
    /\ everInstalled = FALSE
    /\ fetchLog = <<>>

Next ==
    \/ BucketChange
    \/ \E t \in Callers :
         \/ Call(t)
         \/ GetCA(t)
         \/ LoadCA(t)
         \/ Built(t)
         \/ Urlopen(t)
         \/ RequestExecuteRun(t)
         \/ RequestDownloadRun(t)
         \/ DownloadOpenFail(t)
         \/ DownloadChunk(t)
         \/ DownloadFail(t)
         \/ HandleHTTPError(t)
         \/ HandleCertificate(t)
         \/ HandleBrokenPipe(t)
         \/ HandleAbort(t)
         \/ Sleep(t)
         \/ Return(t)

Spec == Init /\ [][Next]_vars

----------------------------------------------------------------------------
(* Specification: two threads call get and delete on one engine with no    *)
(* lock; their statements interleave.  _initSSL is taken as one step.      *)

ConcOps == {"get", "delete"}

CallConc(t) == Start(t, ConcOps)

\* the network of this specification: the handshake fails on the certificate,
\* the connection fails otherwise, or the Manager answers with an envelope
ConcFailures == {f \in Failures : f.exc = "url" /\ f.reason \in {"cert", "net"}}
ConcResponses == {r \in Envelopes : r.data = "value" /\ r.success \in {"true", "false"}}

UrlopenConc(t) == Attempt(t, ConcFailures, ConcResponses)

NextConc ==
    \/ BucketChange
    \/ \E t \in Threads :
         \/ CallConc(t)
         \/ GetCA(t)
         \/ LoadCA(t)
         \/ Built(t)
         \/ UrlopenConc(t)
         \/ RequestExecuteRun(t)
         \/ HandleCertificate(t)
         \/ HandleAbort(t)
         \/ Sleep(t)
         \/ Return(t)

SpecConc == Init /\ [][NextConc]_vars

----------------------------------------------------------------------------
(* Properties *)

\* the failures of the latest attempt that end the call with None: an
\* unclassified exception, a network failure that is no certificate failure,
\* a broken pipe of a request without a body
Fatal(r) ==
    \/ r.exc = "other"
    \/ r.exc = "url" /\ r.reason \in {"net", "sha1"}
    \/ r.exc = "url" /\ r.reason = "pipe" /\ r.op # "put"

\* the first k attempts of h failed with an HTTP error status
Rejected(h, k) == Len(h) >= k /\ \A i \in 1..k : h[i].ev = "http"

\* C1: a call makes at most 3 attempts, whatever the attempts' outcomes, and
\* has returned once the third attempt and its handling are over.
C1_AtMostThreeAttempts ==
    \A t \in Threads :
        /\ Len(th[t].hist) <= 3
        /\ th[t].repeat <= 3
        /\ th[t].repeat = 3 => th[t].pc = "done"

C1_Witness ==
    \E t \in Threads :
        th[t].pc = "done" /\ Len(th[t].hist) = 3 /\ th[t].repeat = 3 /\ th[t].op = "download"

\* C2: download to a file: a file written by the call is on disk only with a
\* computed SHA-1 equal to X-Checksum-Sha1, and then the call returns that
\* digest; from a digest mismatch or a failure while writing on, the file is
\* gone and the call ends with None.
C2_FileOnlyIfVerified ==
    \A t \in Threads :
        LET r == th[t] IN
        (r.op = "download" /\ r.out = "path") =>
            /\ (r.pc = "done" /\ file.exists /\ ~file.old) =>
                   /\ r.wrote = "verified"
                   /\ r.resp.sha1 = Sha1(file.data)
                   /\ r.result = "digest"
            /\ r.wrote \in {"mismatch", "failed", "open_fail"} =>
                   /\ ~file.exists
                   /\ r.pc \in {"caught", "done"}
                   /\ r.pc = "done" => r.result = "None"
            /\ (r.pc = "done" /\ r.result = "digest") => r.wrote = "verified"

C2_Witness ==
    \E t \in Threads :
        /\ th[t].pc = "done" /\ th[t].op = "download" /\ th[t].out = "path"
        /\ th[t].wrote = "mismatch" /\ th[t].sha1_calc # <<>>
        /\ ~file.exists /\ th[t].result = "None"

\* C3 (as claimed): a call whose _getCA found no cached bundle and fetched
\* nothing from the bucket makes no attempt and returns None.
C3_NoTrustReturnsAbsent ==
    \A t \in Threads :
        (/\ th[t].pc = "done"
         /\ fetchLog # <<>>
         /\ fetchLog[Len(fetchLog)] = [fetched |-> TRUE, got |-> FALSE])
        => (Len(th[t].hist) = 0 /\ th[t].result = "None")

\* C4 (as claimed): a call that met a certificate failure while the bucket
\* holds the CA valid for the Manager, and no other kind of failure, has reset
\* the trust store exactly once and returns the result of a later attempt.
C4_ResetThenSuccess ==
    \A t \in Threads :
        LET r == th[t] IN
        (/\ r.pc = "done"
         /\ bucket = "good"
         /\ \E i \in 1..Len(r.hist) : r.hist[i].ev = "cert"
         /\ \A i \in 1..Len(r.hist) : r.hist[i].ev \in {"cert", "response"}
         /\ r.exc \in {"none", "url"} /\ r.reason \in {"none", "cert"})
        => (/\ r.resets = 1
            /\ r.hist[Len(r.hist)].ev = "response"
            /\ r.result \notin {"None", "raised"})

\* C5: HTTP error statuses are retried until the budget is spent: a call ends
\* on an HTTP error only with its third attempt, and then with None; k of
\* them (k < 3) followed by an attempt whose run function returns give that
\* return value after exactly k sleeps.
C5_ServerRejectedRetried ==
    \A t \in Threads :
        LET r == th[t]
            n == Len(r.hist)
        IN  /\ (r.pc = "done" /\ r.exc = "http") =>
                   /\ n = 3 /\ Rejected(r.hist, 3)
                   /\ r.result = "None"
            /\ (/\ r.pc = "done" /\ n >= 1 /\ Rejected(r.hist, n - 1)
                /\ r.hist[n].ev = "response" /\ r.exc = "none") =>
                   /\ r.sleeps = n - 1
                   /\ r.op # "download" => r.result = EnvelopeData(r.resp)
                   /\ r.op = "download" => r.result \in {"False", "callback", "digest"}
                   /\ r.result = "digest" => r.digest = r.resp.sha1

C5_Witness ==
    \E t \in Threads :
        /\ th[t].pc = "done" /\ Len(th[t].hist) = 3 /\ Rejected(th[t].hist, 2)
        /\ th[t].hist[3].ev = "response" /\ th[t].result = "data" /\ th[t].sleeps = 2

\* C6: once a fatal failure of an attempt is handled the call is over: it
\* returns None, and it has slept only after the attempts before that one.
C6_FatalAbortsAtOnce ==
    \A t \in Threads :
        LET r == th[t] IN
        (Fatal(r) /\ r.pc # "caught") =>
            /\ r.pc = "done"
            /\ r.result = "None"
            /\ r.sleeps = Len(r.hist) - 1
            /\ r.repeat = Len(r.hist) - 1

C6_Witness ==
    \E t \in Threads :
        /\ th[t].pc = "done" /\ Len(th[t].hist) = 2 /\ th[t].hist[2].ev = "net"
        /\ th[t].result = "None" /\ th[t].sleeps = 1

\* C7: a broken pipe ends the call at once, without a sleep after it: with
\* True for a PUT (a body was sent), with None for get, delete and download.
C7_BrokenPipe ==
    \A t \in Threads :
        LET r == th[t] IN
        (r.exc = "url" /\ r.reason = "pipe" /\ r.pc # "caught") =>
            /\ r.pc = "done"
            /\ r.result = (IF r.op = "put" THEN "True" ELSE "None")
            /\ r.sleeps = Len(r.hist) - 1
            /\ r.repeat = Len(r.hist) - 1

C7_Witness ==
    \E t \in Threads :
        /\ th[t].pc = "done" /\ th[t].op = "put" /\ th[t].reason = "pipe"
        /\ th[t].result = "True" /\ Len(th[t].hist) = 2

\* C8 (as claimed): of two _getCA calls with no _initSSL between them at most
\* one fetches from the bucket.
C8_FetchAtMostOnce ==
    Len(fetchLog) = 2 => ~(fetchLog[1].fetched /\ fetchLog[2].fetched)

\* C8 (amended): of two _getCA calls with no _initSSL between them, the second
\* fetches exactly when the first fetched and got nothing; so at most one of
\* them fetches when the first found a cached bundle or fetched one.
C8_FetchAgainOnlyAfterAbsent ==
    Len(fetchLog) = 2 =>
        (fetchLog[2].fetched <=> (fetchLog[1].fetched /\ ~fetchLog[1].got))

C8_Witness ==
    /\ Len(fetchLog) = 2
    /\ fetchLog[1].fetched /\ fetchLog[1].got
    /\ ~fetchLog[2].fetched

\* C9 (as claimed): every attempt is made after some load_verify_locations
\* of this engine has succeeded.
C9_AttemptOnlyAfterInstall ==
    \A t \in Threads :
        \A i \in 1..Len(th[t].hist) : th[t].hist[i].ever

\* C10: get and delete: once the run function has dealt with an envelope whose
\* success is false or missing, the call is over with None, and it has slept
\* only after the attempts before that one.
C10_EnvelopeFailureNotRetried ==
    \A t \in Threads :
        LET r == th[t]
            n == Len(r.hist)
        IN  (/\ r.op \in {"get", "delete"}
             /\ n >= 1 /\ r.hist[n].ev = "response"
             /\ r.resp.success \in {"false", "missing"}
             /\ r.pc \notin {"response", "caught"}) =>
                /\ r.pc = "done"
                /\ r.result = "None"
                /\ r.sleeps = n - 1
                /\ r.repeat = n - 1

C10_Witness ==
    \E t \in Threads :
        /\ th[t].pc = "done" /\ th[t].op = "delete" /\ Len(th[t].hist) = 2
        /\ th[t].hist[2].ev = "response" /\ th[t].resp.success = "missing"
        /\ th[t].result = "None" /\ th[t].sleeps = 1

\* C11: download: once the run function has dealt with a response that lacks
\* Content-Length or X-Checksum-Sha1, the call is over with False; it has
\* slept only after the attempts before that one, the callback was not
\* called and the destination is as it was when the call began.
C11_MissingHeadersHardFailure ==
    \A t \in Threads :
        LET r == th[t]
            n == Len(r.hist)
        IN  (/\ r.op = "download"
             /\ n >= 1 /\ r.hist[n].ev = "response"
             /\ (r.recv.length = NoHeader \/ r.recv.sha1 = NoHeader)
             /\ r.pc # "response") =>
                /\ r.pc = "done"
                /\ r.result = "False"
                /\ r.sleeps = n - 1
                /\ r.repeat = n - 1
                /\ r.wrote = "no"
                /\ file = r.file0

C11_Witness ==
    \E t \in Threads :
        /\ th[t].pc = "done" /\ th[t].op = "download" /\ th[t].out = "path"
        /\ Len(th[t].hist) = 2 /\ th[t].hist[2].ev = "response"
        /\ th[t].recv.length # NoHeader /\ th[t].recv.sha1 = NoHeader
        /\ th[t].result = "False" /\ file = th[t].file0 /\ file.exists

\* C12: download to a file, no I/O error while writing: a body of N bytes with
\* Content-Length = N and X-Checksum-Sha1 = its SHA-1 leaves exactly these N
\* bytes in the file and the call returns that digest; if the header is the
\* SHA-1 of a body that differs from the one received in one byte, the call
\* ends on the digest mismatch with None and no file.
C12_DownloadRoundTrip ==
    \A t \in Threads :
        LET r == th[t]
            n == Len(r.hist)
            b == r.recv.body
            run == /\ r.op = "download" /\ r.out = "path"
                   /\ n >= 1 /\ r.hist[n].ev = "response"
                   /\ r.recv.length = Len(b)
                   /\ r.recv.sha1 # NoHeader
                   /\ r.wrote \notin {"failed", "open_fail"}
                   /\ r.pc \notin {"response", "chunk"}
            oneByteOff == \E c \in Bodies :
                   /\ Len(c) = Len(b)
                   /\ Cardinality({i \in 1..Len(b) : c[i] # b[i]}) = 1
                   /\ r.recv.sha1 = Sha1(c)
        IN  /\ (run /\ r.recv.sha1 = Sha1(b)) =>
                   /\ r.pc = "done"
                   /\ r.result = "digest" /\ r.digest = r.recv.sha1
                   /\ file.exists /\ ~file.old
                   /\ file.data = b /\ Len(file.data) = r.recv.length
            /\ (run /\ oneByteOff) =>
                   /\ r.wrote = "mismatch"
                   /\ r.exc = "url" /\ r.reason = "sha1"
                   /\ ~file.exists
                   /\ r.pc \in {"caught", "done"}
                   /\ r.pc = "done" => r.result = "None"

C12_Witness ==
    \E t \in Threads :
        /\ th[t].pc = "done" /\ th[t].op = "download" /\ th[t].out = "path"
        /\ th[t].recv.length = 2 /\ Len(th[t].recv.body) = 2
        /\ th[t].recv.sha1 = Sha1(th[t].recv.body)
        /\ th[t].result = "digest" /\ file.data = th[t].recv.body

\* C13 (as claimed, second half): as long as the calls on the engine have
\* been serialized, no call makes its first attempt (so after _getCA returned
\* True) on a context with no CA loaded.
C13_SerializedFirstAttemptTrusted ==
    (\A u \in Threads : ~th[u].overlapped) =>
        \A t \in Threads : Len(th[t].hist) >= 1 => th[t].hist[1].loaded

\* C13 (first half): two unsynchronized threads reach it: a bundle was
\* installed and cached, the call's _getCA returned True, the other thread's
\* certificate failure reset the trust store under the call, and the call's
\* first attempt ran on the emptied context.
C13_RaceWitness ==
    \E t \in Threads : \E u \in Threads \ {t} :
        /\ th[t].raced /\ th[t].resets = 0
        /\ Len(th[t].hist) = 1
        /\ th[t].hist[1].ever /\ ~th[t].hist[1].loaded
        /\ th[u].resets = 1 /\ th[u].pc \in {"sleep", "attempt"}
        /\ bucket = "stale"

\* C14 (as claimed): a call that is over after n >= 1 attempts has slept
\* n - 1 times.
C14_SleepOnlyBetweenAttempts ==
    \A t \in Threads :
        (th[t].pc = "done" /\ Len(th[t].hist) >= 1) =>
            th[t].sleeps = Len(th[t].hist) - 1

\* C15: once the handler of a certificate failure has run, nothing is cached,
\* the context is new and no fetch has been made since; the call after a call
\* that reset the trust store fetches in its _getCA, and its first attempt
\* runs on a context that holds the bundle it fetched.
C15_ResetThenRefetch ==
    \A t \in Threads :
        LET r == th[t] IN
        /\ (r.exc = "url" /\ r.reason = "cert" /\ r.pc # "caught") =>
               /\ r.resets >= 1
               /\ ca = "None" /\ context = {} /\ fetchLog = <<>>
        /\ (r.pc = "done" /\ r.resets >= 1) => (ca = "None" /\ context = {})
        /\ (r.prevReset /\ r.pc \notin {"idle", "getCA"} /\ r.resets = 0) =>
               /\ Len(fetchLog) = 1 /\ fetchLog[1].fetched
               /\ fetchLog[1].got <=> ca # "None"
        /\ (r.prevReset /\ Len(r.hist) >= 1) =>
               /\ r.hist[1].loaded
               /\ r.resets = 0 => (ca \in {"good", "stale"} /\ context = {ca})

C15_Witness ==
    \E t \in Threads :
        /\ th[t].prevReset /\ th[t].pc = "done"
        /\ Len(th[t].hist) = 1 /\ th[t].hist[1].ev = "response"
        /\ th[t].result = "data" /\ context = {"good"}

\* C16: a step of a call in its retry loop that is not the handling of a
\* certificate failure leaves the cached bundle and the context as they are.
C16_ResetOnlyOnCertificateFailure ==
    [][\A t \in Callers :
          (/\ th[t].pc \in {"attempt", "response", "chunk", "caught", "sleep"}
           /\ ~(th[t].pc = "caught" /\ th[t].exc = "url" /\ th[t].reason = "cert"))
          => (ca' = ca /\ context' = context)]_vars

C16_Witness ==
    \E t \in Threads :
        /\ th[t].pc = "done" /\ th[t].op = "put" /\ Len(th[t].hist) = 2
        /\ th[t].hist[1].ev = "http" /\ th[t].hist[2].ev = "pipe"
        /\ th[t].resets = 0 /\ ca = "good" /\ context = {"good"}

\* C17 (as claimed): every attempt of a serialized call runs on a context
\* that has a CA bundle loaded.
C17_EveryAttemptTrusted ==
    \A t \in Threads :
        \A i \in 1..Len(th[t].hist) : th[t].hist[i].loaded

\* C18 (as claimed): every attempt of a PUT that the Manager answered
\* transmitted the same body: all size bytes of the caller's stream.
C18_RetrySendsWholeBody ==
    \A t \in Threads :
        \A i \in 1..Len(th[t].sent) :
            th[t].sent[i] = th[t].sent[1] /\ Len(th[t].sent[i]) = th[t].size

\* C19 (as claimed): between serialized operations a cached bundle is loaded
\* in the context.
C19_CachedBundleInstalled ==
    AllIdle => (ca # "None" => ca \in context)

\* C20: download to a file: what is left of the declared size never goes below
\* zero and the bytes hashed and written never exceed Content-Length; a turn of
\* the chunk loop takes at most min(cap, left) bytes and takes them off what is
\* left, and the loop is over with the turn that reads nothing, which comes
\* when the body has ended or the declared size is reached.
C20_ChunkLoopBounded ==
    /\ [](\A t \in Threads :
            LET r == th[t] IN
            (r.op = "download" /\ r.out = "path" /\ r.wrote # "no"
             /\ r.wrote # "open_fail") =>
                /\ r.size_left >= 0
                /\ Len(r.sha1_calc) + r.size_left = r.recv.length
                /\ Len(file.data) <= r.recv.length
                /\ r.wrote \in {"verified", "mismatch"} =>
                       (r.resp.body = <<>> \/ r.size_left = 0))
    /\ [][\A t \in Callers :
            (th[t].pc = "chunk" /\ th'[t].wrote # "failed") =>
                LET n == Len(th'[t].sha1_calc) - Len(th[t].sha1_calc) IN
                /\ 0 <= n /\ n <= th[t].size_left /\ n <= ChunkMax
                /\ th'[t].size_left = th[t].size_left - n
                /\ Len(th'[t].resp.body) = Len(th[t].resp.body) - n
                /\ (n = 0) <=> (th'[t].pc # "chunk")
                /\ (n = 0) => (th[t].resp.body = <<>> \/ th[t].size_left = 0)]_vars

C20_Witness ==
    \E t \in Threads :
        /\ th[t].pc = "done" /\ th[t].op = "download" /\ th[t].out = "path"
        /\ th[t].wrote = "mismatch"
        /\ th[t].recv.length = 1 /\ Len(th[t].recv.body) = 2
        /\ th[t].size_left = 0 /\ Len(th[t].sha1_calc) = 1

====
